---- MODULE Spec2Model ----
(***************************************************************************)
(* The vector store of the RAG service: ChromaDBManager (app/database.py)  *)
(* over one ChromaDB collection.                                           *)
(*                                                                         *)
(* Python values.  A reference that may be None is a set with at most one  *)
(* element: None is {} and a value x is Some(x).  A dict is the sequence   *)
(* of its <<key, value>> pairs in insertion order.                         *)
(***************************************************************************)
EXTENDS Integers, Sequences, FiniteSets, TLC

None == {}
Some(x) == {x}
Val(o) == CHOOSE x \in o : TRUE

MAX_SEARCH_DOCUMENTS == 50

\* time.time() is 1 when the manager is constructed and advances by one with
\* every call on it; the last call is made at MaxClock.
MaxClock == 2
\* bulk_add_documents is called with at most MaxBatch documents.
MaxBatch == 2

Texts == {"a", "bb"}
Embeddings == {<<1, 0>>, <<0, 1>>}
Metadatas == {<<>>, <<<<"source", "test">>>>}
DocIds == {None, Some("d1")}

(***************************************************************************)
(* dict                                                                    *)
(***************************************************************************)
DictHas(d, k) == \E i \in 1..Len(d) : d[i][1] = k

DictGet(d, k) == d[CHOOSE i \in 1..Len(d) : d[i][1] = k][2]

\* d[k] = v: an existing key keeps its position, a new key goes last.
DictSet(d, k, v) ==
    IF DictHas(d, k)
    THEN [i \in 1..Len(d) |-> IF d[i][1] = k THEN <<k, v>> ELSE d[i]]
    ELSE Append(d, <<k, v>>)

\* d.update(e)
RECURSIVE DictUpdate(_, _)
DictUpdate(d, e) ==
    IF e = <<>> THEN d
    ELSE DictUpdate(DictSet(d, Head(e)[1], Head(e)[2]), Tail(e))

(***************************************************************************)
(* State.                                                                  *)
(*   collection    the ChromaDB collection: id -> stored record            *)
(*   validatesIds  whether the backend rejects an id that is not a string  *)
(*                 (chromadb raises ValueError on it; the Mock collection  *)
(*                 of tests/test_database.py accepts anything)             *)
(*   clock         time.time()                                             *)
(*   last          the last call on the manager: arguments and outcome     *)
(*   calls         the add_document calls of the callers that run          *)
(*                 concurrently on the collection, each at its own step    *)
(*   gen           the EmbeddingGenerator: its model, use_fallback and     *)
(*                 embedding_dim                                           *)
(*   rag           the RAGPipeline: its use_mock_llm and its call of       *)
(*                 generate_answer, in flight or returned                  *)
(***************************************************************************)
VARIABLES collection, validatesIds, clock, last, calls, gen, rag

vars == <<collection, validatesIds, clock, last, calls, gen, rag>>

Min(a, b) == IF a < b THEN a ELSE b
Max(a, b) == IF a > b THEN a ELSE b

Record(text, embedding, metadata) ==
    [document |-> text, embedding |-> embedding, metadata |-> metadata]

(***************************************************************************)
(* The collection's methods, as ChromaDBManager calls them.  Each returns  *)
(* ok = FALSE when the call raises: on a backend failure (fail), or when   *)
(* the backend validates ids and is handed one that is not a string.       *)
(***************************************************************************)
ValidIds(ids) ==
    validatesIds =>
        /\ \A i \in 1..Len(ids) : ids[i] # None
        /\ \A i, j \in 1..Len(ids) : i # j => ids[i] # ids[j]

\* collection.get(ids=[doc_id], ...)
CollectionGet(coll, doc_id, fail) ==
    IF fail \/ ~ValidIds(<<doc_id>>) THEN [ok |-> FALSE, ids |-> <<>>]
    ELSE IF doc_id \in DOMAIN coll THEN [ok |-> TRUE, ids |-> <<doc_id>>]
    ELSE [ok |-> TRUE, ids |-> <<>>]

\* A record whose id is already stored is left as it is: add never overwrites.
RECURSIVE InsertAll(_, _, _, _, _)
InsertAll(coll, ids, documents, embeddings, metadatas) ==
    IF ids = <<>> THEN coll
    ELSE LET id == Head(ids)
             next == IF id \in DOMAIN coll THEN coll
                     ELSE [k \in DOMAIN coll \cup {id} |->
                              IF k = id
                              THEN Record(Head(documents), Head(embeddings),
                                          Head(metadatas))
                              ELSE coll[k]]
         IN InsertAll(next, Tail(ids), Tail(documents), Tail(embeddings),
                      Tail(metadatas))

\* collection.add(ids=..., documents=..., embeddings=..., metadatas=...)
CollectionAdd(coll, ids, documents, embeddings, metadatas, fail) ==
    IF fail \/ ~ValidIds(ids) THEN [ok |-> FALSE, coll |-> coll]
    ELSE [ok |-> TRUE,
          coll |-> InsertAll(coll, ids, documents, embeddings, metadatas)]

\* collection.update(ids=[doc_id], **update_params): only the fields given
\* change; the given metadata keys are merged into the stored metadata.
CollectionUpdate(coll, doc_id, text, embedding, metadata, fail) ==
    IF fail \/ ~ValidIds(<<doc_id>>) THEN [ok |-> FALSE, coll |-> coll]
    ELSE IF doc_id \notin DOMAIN coll THEN [ok |-> TRUE, coll |-> coll]
    ELSE LET old == coll[doc_id]
             new == Record(
                 IF text = None THEN old.document ELSE Val(text),
                 IF embedding = None THEN old.embedding ELSE Val(embedding),
                 IF metadata = None THEN old.metadata
                 ELSE DictUpdate(old.metadata, Val(metadata)))
         IN [ok |-> TRUE, coll |-> [coll EXCEPT ![doc_id] = new]]

\* collection.delete(ids=[doc_id])
CollectionDelete(coll, doc_id, fail) ==
    IF fail \/ ~ValidIds(<<doc_id>>) THEN [ok |-> FALSE, coll |-> coll]
    ELSE [ok |-> TRUE,
          coll |-> [k \in DOMAIN coll \ {doc_id} |-> coll[k]]]

\* The collection is created with hnsw:space = cosine: the distance of two
\* unit vectors is 1 minus their dot product.
Distance(a, b) == 1 - (a[1] * b[1] + a[2] * b[2])

\* The orders in which a query can list the stored ids: nearest first, ties
\* in any order.
Orderings(coll, query_embedding) ==
    {o \in [1..Cardinality(DOMAIN coll) -> DOMAIN coll] :
        /\ \A i, j \in DOMAIN o : i # j => o[i] # o[j]
        /\ \A i, j \in DOMAIN o :
              i < j => Distance(query_embedding, coll[o[i]].embedding)
                       <= Distance(query_embedding, coll[o[j]].embedding)}

\* collection.query(query_embeddings=[q], n_results=n, include=[...]): the n
\* nearest records (all of them when fewer are stored), listed in order.
CollectionQuery(coll, query_embedding, n, order, fail) ==
    IF fail THEN [ok |-> FALSE, ids |-> <<>>]
    ELSE [ok |-> TRUE, ids |-> SubSeq(order, 1, Min(n, Len(order)))]

(***************************************************************************)
(* ChromaDBManager.  Each method is an operator from the collection, the   *)
(* clock and the arguments to the outcome of the call:                     *)
(*   coll    the collection afterwards                                     *)
(*   raised  the exception the caller sees ("" for a normal return)        *)
(*   ret     the value returned                                            *)
(*   failed  the backend calls that were made and raised                   *)
(* fault is the set of backend calls that fail (an I/O error) if made.     *)
(***************************************************************************)
Outcome(coll, raised, ret, failed) ==
    [coll |-> coll, raised |-> raised, ret |-> ret, failed |-> failed]

\* str(metadata) lists the items in insertion order; hash() of it stands for
\* itself.  content is built and dropped: the function ends without a return
\* statement, so every call returns None.
_generate_document_id(text, metadata) ==
    LET md == IF metadata = None THEN <<>> ELSE Val(metadata)
        content == <<text, md>>
    IN None

_document_exists(coll, doc_id, fail) ==
    LET result == CollectionGet(coll, doc_id, fail)
    IN IF result.ok THEN Len(result.ids) > 0 ELSE FALSE

\* {"get"} when the collection.get of the existence check raises (the check
\* swallows the exception).
GetFailed(coll, doc_id, fault) ==
    IF CollectionGet(coll, doc_id, "get" \in fault).ok THEN {} ELSE {"get"}

\* add_document with an except clause that logs the failure of collection.add
\* and returns the id instead of raising.
add_document_swallowing(coll, now, text, embedding, metadata, allow_duplicates, fault) ==
    LET md == IF metadata = None THEN <<>> ELSE Val(metadata)
        doc_id == _generate_document_id(text, Some(md))
        checked == IF allow_duplicates THEN {}
                   ELSE GetFailed(coll, doc_id, fault)
    IN IF ~allow_duplicates /\ _document_exists(coll, doc_id, "get" \in fault)
       THEN Outcome(coll, "", doc_id, checked)
       ELSE LET stamped == DictUpdate(md, <<<<"timestamp", now>>,
                                            <<"text_length", Len(text)>>>>)
                r == CollectionAdd(coll, <<doc_id>>, <<text>>, <<embedding>>,
                                   <<stamped>>, "add" \in fault)
            IN IF r.ok THEN Outcome(r.coll, "", doc_id, checked)
               ELSE Outcome(coll, "", doc_id, checked \cup {"add"})

add_document(coll, now, text, embedding, metadata, allow_duplicates, fault) ==
    LET md == IF metadata = None THEN <<>> ELSE Val(metadata)
        doc_id == _generate_document_id(text, Some(md))
        checked == IF allow_duplicates THEN {}
                   ELSE GetFailed(coll, doc_id, fault)
    IN IF ~allow_duplicates /\ _document_exists(coll, doc_id, "get" \in fault)
       THEN Outcome(coll, "", doc_id, checked)
       ELSE LET stamped == DictUpdate(md, <<<<"timestamp", now>>,
                                            <<"text_length", Len(text)>>>>)
                r == CollectionAdd(coll, <<doc_id>>, <<text>>, <<embedding>>,
                                   <<stamped>>, "add" \in fault)
            IN IF r.ok THEN Outcome(r.coll, "", doc_id, checked)
               ELSE Outcome(coll, "RuntimeError", None, checked \cup {"add"})

\* The clamp of line 177 without its upper end.
clamp_n_results_unbounded(n_results) == Max(1, n_results)

clamp_n_results(n_results) == Max(1, Min(n_results, MAX_SEARCH_DOCUMENTS))

\* n_results is the clamped count, which the method hands to the backend and
\* sets as the span attribute "n_results".
search(coll, query_embedding, n_results, order, fault) ==
    LET n == clamp_n_results(n_results)
        results == CollectionQuery(coll, query_embedding, n, order,
                                   "query" \in fault)
        ids == results.ids
    IN IF results.ok
       THEN [coll |-> coll, raised |-> "", failed |-> {}, n_results |-> n,
             ret |->
                [documents |-> [i \in DOMAIN ids |-> coll[ids[i]].document],
                 distances |-> [i \in DOMAIN ids |->
                     Distance(query_embedding, coll[ids[i]].embedding)],
                 metadatas |-> [i \in DOMAIN ids |-> coll[ids[i]].metadata],
                 ids |-> ids]]
       ELSE [coll |-> coll, raised |-> "RuntimeError", failed |-> {"query"},
             n_results |-> n, ret |-> None]

\* update_document without the existence check of line 283: the update goes
\* to the backend whatever the id.
update_document_unchecked(coll, now, doc_id, text, embedding, metadata, fault) ==
    LET stamped ==
            IF metadata = None THEN None
            ELSE LET m == DictSet(Val(metadata), "timestamp", now)
                 IN IF text # None /\ Val(text) # ""
                    THEN Some(DictSet(m, "text_length", Len(Val(text))))
                    ELSE Some(m)
        r == CollectionUpdate(coll, doc_id, text, embedding, stamped,
                              "update" \in fault)
    IN IF r.ok THEN Outcome(r.coll, "", TRUE, {})
       ELSE Outcome(coll, "", FALSE, {"update"})

update_document(coll, now, doc_id, text, embedding, metadata, fault) ==
    LET checked == GetFailed(coll, doc_id, fault)
    IN IF ~_document_exists(coll, doc_id, "get" \in fault)
       THEN Outcome(coll, "", FALSE, checked)
       ELSE LET stamped ==
                    IF metadata = None THEN None
                    ELSE LET m == DictSet(Val(metadata), "timestamp", now)
                         IN IF text # None /\ Val(text) # ""
                            THEN Some(DictSet(m, "text_length", Len(Val(text))))
                            ELSE Some(m)
                r == CollectionUpdate(coll, doc_id, text, embedding, stamped,
                                      "update" \in fault)
            IN IF r.ok THEN Outcome(r.coll, "", TRUE, checked)
               ELSE Outcome(coll, "", FALSE, checked \cup {"update"})

\* delete_document without the existence check of line 333.
delete_document_unchecked(coll, doc_id, fault) ==
    LET r == CollectionDelete(coll, doc_id, "delete" \in fault)
    IN IF r.ok THEN Outcome(r.coll, "", TRUE, {})
       ELSE Outcome(coll, "", FALSE, {"delete"})

delete_document(coll, doc_id, fault) ==
    LET checked == GetFailed(coll, doc_id, fault)
    IN IF ~_document_exists(coll, doc_id, "get" \in fault)
       THEN Outcome(coll, "", FALSE, checked)
       ELSE LET r == CollectionDelete(coll, doc_id, "delete" \in fault)
            IN IF r.ok THEN Outcome(r.coll, "", TRUE, checked)
               ELSE Outcome(coll, "", FALSE, checked \cup {"delete"})

get_document(coll, doc_id, fault) ==
    LET result == CollectionGet(coll, doc_id, "get" \in fault)
    IN IF ~result.ok THEN Outcome(coll, "", None, {"get"})
       ELSE IF result.ids = <<>> THEN Outcome(coll, "", None, {})
       ELSE Outcome(coll, "",
                Some([id |-> result.ids[1],
                      document |-> coll[doc_id].document,
                      metadata |-> coll[doc_id].metadata,
                      embedding |-> coll[doc_id].embedding]), {})

\* The documents of the batch that pass the existence check, in input order.
\* The check looks at the collection as it is before the batch is added.
RECURSIVE ToAdd(_, _, _, _, _)
ToAdd(coll, now, documents, allow_duplicates, failGet) ==
    IF documents = <<>> THEN <<>>
    ELSE LET doc == Head(documents)
             doc_id == _generate_document_id(doc.text, Some(doc.metadata))
             rest == ToAdd(coll, now, Tail(documents), allow_duplicates, failGet)
         IN IF ~allow_duplicates /\ _document_exists(coll, doc_id, failGet)
            THEN rest
            ELSE <<[id |-> doc_id, text |-> doc.text,
                    embedding |-> doc.embedding,
                    metadata |-> DictUpdate(doc.metadata,
                        <<<<"timestamp", now>>,
                          <<"text_length", Len(doc.text)>>>>)]>> \o rest

bulk_add_documents(coll, now, documents, allow_duplicates, fault) ==
    LET adds == ToAdd(coll, now, documents, allow_duplicates, "get" \in fault)
        added_ids == [i \in DOMAIN adds |-> adds[i].id]
        checked ==
            IF allow_duplicates THEN {}
            ELSE UNION {GetFailed(coll,
                            _generate_document_id(documents[i].text,
                                                  Some(documents[i].metadata)),
                            fault) : i \in DOMAIN documents}
        r == IF adds # <<>>
             THEN CollectionAdd(coll, added_ids,
                      [i \in DOMAIN adds |-> adds[i].text],
                      [i \in DOMAIN adds |-> adds[i].embedding],
                      [i \in DOMAIN adds |-> adds[i].metadata],
                      "add" \in fault)
             ELSE [ok |-> TRUE, coll |-> coll]
    IN IF r.ok THEN Outcome(r.coll, "", added_ids, checked)
       ELSE Outcome(coll, "RuntimeError", <<>>, checked \cup {"add"})

(***************************************************************************)
(* The callers' inputs.                                                    *)
(***************************************************************************)
OptTexts == {None} \cup {Some(t) : t \in Texts}
OptEmbeddings == {None} \cup {Some(e) : e \in Embeddings}
OptMetadatas == {None} \cup {Some(m) : m \in Metadatas}
NResults == {-1, 0, 1, 2, 50, 51, 100}

\* main.py embeds the text it stores: the embedding handed to add_document
\* and bulk_add_documents is a function of the text.
EmbeddingOf(text) == IF text = "a" THEN <<1, 0>> ELSE <<0, 1>>

BulkDocs ==
    {[text |-> t, embedding |-> EmbeddingOf(t), metadata |-> <<>>] : t \in Texts}

SeqsUpTo(S, n) == UNION {[1..k -> S] : k \in 0..n}

\* What ./chroma_db can hold when the manager is constructed: nothing, or a
\* record persisted by an earlier run.
Persisted ==
    [k \in {Some("d1")} |->
        Record("a", <<1, 0>>, <<<<"timestamp", 0>>, <<"text_length", Len("a")>>>>)]

\* No EmbeddingGenerator yet.
NotConstructed ==
    [constructed |-> FALSE, raised |-> "", model |-> None, use_fallback |-> TRUE,
     embedding_dim |-> 0]

\* The callers that can be inside add_document at the same time.
Procs == {1, 2}

NotCalled ==
    [pc |-> "idle", text |-> "", metadata |-> <<>>, allow_duplicates |-> FALSE,
     doc_id |-> None, fault |-> {}, added |-> FALSE, raised |-> "", ret |-> None]

\* No RAGPipeline yet: the fields of the pipeline and of its call in flight.
NoPipeline ==
    [use_mock_llm |-> TRUE, pc |-> "idle", question |-> <<>>,
     max_results |-> 0, embed |-> "ok", order |-> <<>>, fault |-> {},
     api |-> "", format |-> "ok", response |-> None, called |-> <<>>,
     generated |-> [raised |-> "", answer |-> <<"", "">>, tokens_used |-> 0],
     api_key |-> "", config_api_key |-> "", authorization |-> None,
     constructed |-> FALSE]

Init ==
    /\ collection \in {<<>>, Persisted}
    /\ validatesIds \in BOOLEAN
    /\ clock = 1
    /\ last = [op |-> "init"]
    /\ calls = [p \in Procs |-> NotCalled]
    /\ gen = NotConstructed
    /\ rag = NoPipeline

\* One call on the manager: the collection becomes the outcome's, the clock
\* advances, and last records the call.
Call(o, call) ==
    /\ collection' = o.coll
    /\ clock' = clock + 1
    /\ last' = call
    /\ UNCHANGED <<validatesIds, calls, gen, rag>>

AddDocument ==
    /\ clock <= MaxClock
    /\ \E text \in Texts, metadata \in OptMetadatas, allow_duplicates \in BOOLEAN,
       fault \in SUBSET {"get", "add"} :
      \E o \in {add_document(collection, clock, text, EmbeddingOf(text),
                             metadata, allow_duplicates, fault)} :
        Call(o, [op |-> "add_document", text |-> text, metadata |-> metadata,
                 allow_duplicates |-> allow_duplicates,
                 fault |-> fault, failed |-> o.failed,
                 raised |-> o.raised, ret |-> o.ret])

Search ==
    /\ clock <= MaxClock
    /\ \E query_embedding \in Embeddings, n_results \in NResults,
       fault \in SUBSET {"query"} :
      \E order \in Orderings(collection, query_embedding) :
        \E o \in {search(collection, query_embedding, n_results, order, fault)} :
          Call(o, [op |-> "search", n_results |-> n_results,
                   asked |-> o.n_results, fault |-> fault, failed |-> o.failed,
                   raised |-> o.raised, ret |-> o.ret])

UpdateDocument ==
    /\ clock <= MaxClock
    /\ \E doc_id \in DocIds, text \in OptTexts, embedding \in OptEmbeddings,
       metadata \in OptMetadatas, fault \in SUBSET {"get", "update"} :
      \E o \in {update_document(collection, clock, doc_id, text, embedding,
                                metadata, fault)} :
        Call(o, [op |-> "update_document", doc_id |-> doc_id, text |-> text,
                 fields |-> {f \in {"text", "embedding", "metadata"} :
                                \/ f = "text" /\ text # None
                                \/ f = "embedding" /\ embedding # None
                                \/ f = "metadata" /\ metadata # None},
                 fault |-> fault, failed |-> o.failed, raised |-> o.raised,
                 ret |-> o.ret])

DeleteDocument ==
    /\ clock <= MaxClock
    /\ \E doc_id \in DocIds, fault \in SUBSET {"get", "delete"} :
      \E o \in {delete_document(collection, doc_id, fault)} :
        Call(o, [op |-> "delete_document", doc_id |-> doc_id, fault |-> fault,
                 failed |-> o.failed, raised |-> o.raised, ret |-> o.ret])

GetDocument ==
    /\ clock <= MaxClock
    /\ \E doc_id \in DocIds, fault \in SUBSET {"get"} :
      \E o \in {get_document(collection, doc_id, fault)} :
        Call(o, [op |-> "get_document", doc_id |-> doc_id, fault |-> fault,
                 failed |-> o.failed, raised |-> o.raised, ret |-> o.ret])

BulkAddDocuments ==
    /\ clock <= MaxClock
    /\ \E documents \in SeqsUpTo(BulkDocs, MaxBatch), allow_duplicates \in BOOLEAN,
       fault \in SUBSET {"get", "add"} :
      \E o \in {bulk_add_documents(collection, clock, documents,
                                   allow_duplicates, fault)} :
        Call(o, [op |-> "bulk_add_documents",
                 ids |-> [i \in DOMAIN documents |->
                             _generate_document_id(documents[i].text,
                                 Some(documents[i].metadata))],
                 allow_duplicates |-> allow_duplicates, fault |-> fault,
                 failed |-> o.failed, raised |-> o.raised, ret |-> o.ret])

Next ==
    \/ AddDocument
    \/ Search
    \/ UpdateDocument
    \/ DeleteDocument
    \/ GetDocument
    \/ BulkAddDocuments

Spec == Init /\ [][Next]_vars

(***************************************************************************)
(* add_document called by several callers at once.  The method takes no    *)
(* lock: between its existence check and its collection.add the other      *)
(* caller's steps can run.  A call is at "check" before line 123, at       *)
(* "insert" before line 135 and "done" when it has returned or raised.     *)
(***************************************************************************)
Step(p, call) ==
    /\ calls' = [calls EXCEPT ![p] = call]
    /\ clock' = clock + 1
    /\ UNCHANGED <<validatesIds, last, gen, rag>>

\* lines 118-121: metadata defaults to {} and the id is computed.
AddBegin(p) ==
    /\ calls[p].pc = "idle"
    /\ \E text \in Texts, metadata \in OptMetadatas, allow_duplicates \in BOOLEAN :
         LET md == IF metadata = None THEN <<>> ELSE Val(metadata)
         IN /\ Step(p, [calls[p] EXCEPT
                   !.pc = "check", !.text = text, !.metadata = md,
                   !.allow_duplicates = allow_duplicates,
                   !.doc_id = _generate_document_id(text, Some(md))])
            /\ UNCHANGED collection

\* lines 123-128: the existence check; a call that finds its id returns it.
AddCheck(p) ==
    /\ calls[p].pc = "check"
    /\ \E fault \in SUBSET {"get"} :
         LET c == calls[p]
             found == /\ ~c.allow_duplicates
                      /\ _document_exists(collection, c.doc_id, "get" \in fault)
         IN /\ Step(p, [c EXCEPT
                   !.pc = IF found THEN "done" ELSE "insert",
                   !.fault = IF c.allow_duplicates THEN {} ELSE fault,
                   !.ret = IF found THEN c.doc_id ELSE None])
            /\ UNCHANGED collection

\* lines 135-158: the metadata is stamped and the record is added.
AddInsert(p) ==
    /\ calls[p].pc = "insert"
    /\ \E fault \in SUBSET {"add"} :
         LET c == calls[p]
             stamped == DictUpdate(c.metadata,
                            <<<<"timestamp", clock>>,
                              <<"text_length", Len(c.text)>>>>)
             r == CollectionAdd(collection, <<c.doc_id>>, <<c.text>>,
                                <<EmbeddingOf(c.text)>>, <<stamped>>,
                                "add" \in fault)
         IN /\ collection' = r.coll
            /\ Step(p, [c EXCEPT
                   !.pc = "done", !.fault = c.fault \cup fault,
                   !.added = r.ok,
                   !.raised = IF r.ok THEN "" ELSE "RuntimeError",
                   !.ret = IF r.ok THEN c.doc_id ELSE None])

NextConc ==
    \/ \E p \in Procs : AddBegin(p)
    \/ \E p \in Procs : AddCheck(p)
    \/ \E p \in Procs : AddInsert(p)

SpecConc == Init /\ [][NextConc]_vars

(***************************************************************************)
(* EmbeddingGenerator (app/embeddings.py).                                 *)
(*                                                                         *)
(* A Python value handed to generate_embeddings is <<type, value>>; a str  *)
(* is <<"str", s>> with s the sequence of its characters' code points.     *)
(* A float is the integer nearest to it in units of 1/Scale.               *)
(***************************************************************************)
PyStr(s) == <<"str", s>>
PyNone == <<"NoneType", <<>>>>
isinstance_str(x) == x[1] = "str"

Scale == 10000

\* str.isspace() of one character: space, \t, \n, \v, \f, \r.
IsSpace(c) == c = 32 \/ c \in 9..13

\* str.strip()
RECURSIVE LStrip(_)
LStrip(s) == IF s # <<>> /\ IsSpace(Head(s)) THEN LStrip(Tail(s)) ELSE s

RECURSIVE RStrip(_)
RStrip(s) ==
    IF s # <<>> /\ IsSpace(s[Len(s)]) THEN RStrip(SubSeq(s, 1, Len(s) - 1))
    ELSE s

strip(s) == RStrip(LStrip(s))

\* str.lower() on ASCII
lower(s) == [i \in DOMAIN s |-> IF s[i] \in 65..90 THEN s[i] + 32 ELSE s[i]]

\* hashlib.sha256(text_lower.encode()).hexdigest(): the 64 hex digits of the
\* digests of "a", "b" and "bb", the normalized texts that occur.
sha256_hexdigest(text_lower) ==
    CASE text_lower = <<97>> -> <<
          12, 10, 9, 7, 8, 1, 1, 2, 12, 10, 1, 11, 11, 13, 12, 10,
          15, 10, 12, 2, 3, 1, 11, 3, 9, 10, 2, 3, 13, 12, 4, 13,
          10, 7, 8, 6, 14, 15, 15, 8, 1, 4, 7, 12, 4, 14, 7, 2,
          11, 9, 8, 0, 7, 7, 8, 5, 10, 15, 14, 14, 4, 8, 11, 11 >>
      [] text_lower = <<98>> -> <<
          3, 14, 2, 3, 14, 8, 1, 6, 0, 0, 3, 9, 5, 9, 4, 10,
          3, 3, 8, 9, 4, 15, 6, 5, 6, 4, 14, 1, 11, 1, 3, 4,
          8, 11, 11, 13, 7, 10, 0, 0, 8, 8, 13, 4, 2, 12, 4, 10,
          12, 11, 7, 3, 14, 14, 10, 14, 13, 5, 9, 12, 0, 0, 9, 13 >>
      [] text_lower = <<98, 98>> -> <<
          3, 11, 6, 4, 13, 11, 9, 5, 12, 11, 5, 5, 12, 7, 6, 3,
          3, 9, 1, 12, 7, 0, 7, 1, 0, 8, 4, 8, 9, 10, 14, 1,
          8, 11, 4, 1, 1, 2, 13, 7, 8, 3, 3, 0, 0, 13, 14, 3,
          8, 14, 0, 3, 3, 11, 4, 12, 9, 8, 12, 3, 13, 14, 10, 15 >>

\* int(hex_pair, 16) of the two digits of text_hash from 0-based index i.
HexPair(text_hash, i) == 16 * text_hash[i + 1] + text_hash[i + 2]

\* math.log(n), in units of 1/Scale, for the lengths that occur.
Log(n) ==
    CASE n = 1 -> 0
      [] n = 2 -> 6931
      [] n = 3 -> 10986
      [] n = 4 -> 13863

\* sin(pi * u / Scale) for u in 0..Scale, by Bhaskara's formula
\* 16u(1-u) / (5 - 4u(1-u)).
SinHalfTurn(u) ==
    LET p == (u * (Scale - u)) \div Scale
    IN (16 * p * Scale) \div (5 * Scale - 4 * p)

\* math.sin of an angle of turns/Scale full turns.
SinTurns(turns) ==
    LET t == turns % Scale
    IN IF 2 * t <= Scale THEN SinHalfTurn(2 * t)
       ELSE 0 - SinHalfTurn(2 * t - Scale)

\* math.sqrt: the integer square root.
RECURSIVE Sqrt(_, _, _)
Sqrt(n, lo, hi) ==
    IF lo >= hi THEN lo
    ELSE LET mid == (lo + hi + 1) \div 2
         IN IF mid * mid <= n THEN Sqrt(n, mid, hi) ELSE Sqrt(n, lo, mid - 1)

\* sum(x * x for x in embedding), in units of 1/Scale.
\* (the sum of positions lo..hi, by halves)
RECURSIVE SumSquares(_, _, _)
SumSquares(embedding, lo, hi) ==
    IF lo > hi THEN 0
    ELSE IF lo = hi THEN (embedding[lo] * embedding[lo]) \div Scale
    ELSE LET mid == (lo + hi) \div 2
         IN SumSquares(embedding, lo, mid) + SumSquares(embedding, mid + 1, hi)

\* The initial embedding_dim of __init__, and the one of fallback mode.
DEFAULT_EMBEDDING_DIM == 384

\* The number of hex pairs that range(0, min(len(text_hash), dim * 2), 2)
\* visits.
HashedCount(text_hash, embedding_dim) ==
    (Min(Len(text_hash), embedding_dim * 2) + 1) \div 2

\* The embedding without the loop over the hash (lines 284-301): every
\* position is filled by the rule of lines 303-306.
FallbackEmbeddingUnhashed(text, embedding_dim) ==
    LET text_lower == strip(lower(text))
    IN [k \in 1..embedding_dim |->
           (SinTurns(((k - 1) * Len(text_lower) * 1000000) \div 62832) + Scale)
               \div 2]

\* Lines 278-312: the embedding of one text that is not blank.
FallbackEmbedding(text, embedding_dim) ==
    LET text_lower == strip(lower(text))
        text_hash == sha256_hexdigest(text_lower)
        hashed == Min(HashedCount(text_hash, embedding_dim), embedding_dim)
        length_factor == Log(Len(text_lower) + 1) \div 10
        FromHash(k) ==
            LET base_value == (HexPair(text_hash, 2 * k) * Scale) \div 255
                char_index == k % Len(text_lower)
                char_value == (text_lower[char_index + 1] * Scale) \div 255
                final_value == (base_value * 6 + char_value * 3
                                + length_factor * 1) \div 10
            IN (SinTurns(final_value) + Scale) \div 2
        Padding(pos) ==
            LET pos_value == SinTurns((pos * Len(text_lower) * 1000000) \div 62832)
            IN (pos_value + Scale) \div 2
        embedding == [k \in 1..Max(hashed, embedding_dim) |->
                         IF k <= hashed THEN FromHash(k - 1) ELSE Padding(k - 1)]
        magnitude == Sqrt(SumSquares(embedding, 1, Len(embedding)) * 100, 0, 20000) * 10
        normalized == IF magnitude > 0
                      THEN [k \in DOMAIN embedding |->
                               (embedding[k] * Scale) \div magnitude]
                      ELSE embedding
    IN SubSeq(normalized, 1, Min(embedding_dim, Len(normalized)))

\* The fallback embeddings of the normalized texts that occur, computed once.
FallbackVectors ==
    [t \in {<<97>>, <<98>>, <<98, 98>>} |->
        FallbackEmbedding(t, DEFAULT_EMBEDDING_DIM)]

ZeroVector(embedding_dim) == [k \in 1..embedding_dim |-> 0]

\* Lines 272-312 for one element of texts.  FallbackEmbedding reads a text
\* only through text.lower().strip(), so the vector of a text is the one of
\* its normalized form.
FallbackOfText(text, embedding_dim) ==
    IF strip(text[2]) = <<>> THEN ZeroVector(embedding_dim)
    ELSE IF embedding_dim = DEFAULT_EMBEDDING_DIM
         THEN FallbackVectors[strip(lower(text[2]))]
         ELSE FallbackEmbedding(text[2], embedding_dim)

\* A fallback that mixes the position of the text in the batch into its
\* vector.
_generate_fallback_embeddings_positional(texts, embedding_dim) ==
    [i \in DOMAIN texts |->
        [k \in 1..embedding_dim |->
            FallbackOfText(texts[i], embedding_dim)[k] + (i - 1)]]

_generate_fallback_embeddings(texts, embedding_dim) ==
    [i \in DOMAIN texts |-> FallbackOfText(texts[i], embedding_dim)]

\* model.encode(texts, ...) of a loaded model: one vector of the model's
\* dimension for each text, a function of the text.
Encode(model, texts) ==
    [i \in DOMAIN texts |->
        [k \in 1..model.dim |-> (Len(texts[i]) * k + texts[i][1]) % Scale]]

\* _configure_ssl: only an ImportError of ssl.create_default_context is
\* handled; any other exception leaves the method.
_configure_ssl(ssl) == IF ssl \in {"ok", "ImportError"} THEN "" ELSE ssl

_fallback_to_simple_embeddings ==
    [model |-> None, use_fallback |-> TRUE,
     embedding_dim |-> DEFAULT_EMBEDDING_DIM]

\* load is what SentenceTransformer(model_name) does: it raises
\* load.raises ("ImportError" or "Exception") or returns a model of dimension
\* load.dim; trial is what the encode of ["test"] does ("Exception" or "ok").
_load_model(load, trial) ==
    IF load.raises # "" THEN _fallback_to_simple_embeddings
    ELSE IF trial = "Exception" THEN _fallback_to_simple_embeddings
    ELSE LET test_embedding == Encode(load, <<<<116, 101, 115, 116>>>>)
         IN [model |-> Some(load), use_fallback |-> FALSE,
             embedding_dim |-> Len(test_embedding[1])]

\* EmbeddingGenerator(model_name)
EmbeddingGenerator(ssl, load, trial) ==
    IF _configure_ssl(ssl) # ""
    THEN [constructed |-> FALSE, raised |-> _configure_ssl(ssl), model |-> None,
          use_fallback |-> TRUE, embedding_dim |-> DEFAULT_EMBEDDING_DIM]
    ELSE LET loaded == _load_model(load, trial)
         IN [constructed |-> TRUE, raised |-> "", model |-> loaded.model,
             use_fallback |-> loaded.use_fallback,
             embedding_dim |-> loaded.embedding_dim]

\* Lines 229-256; encode is what model.encode does on this call.
_generate_model_embeddings(g, texts, encode) ==
    IF g.model = None \/ encode = "Exception"
    THEN [ok |-> FALSE, result |-> <<>>]
    ELSE [ok |-> TRUE, result |-> Encode(Val(g.model), texts)]

NotBlank(text) == strip(text[2]) # <<>>

\* The check of line 159 left out: every input passes.
AllStringsUnchecked(texts) == TRUE

AllStrings(texts) == \A i \in DOMAIN texts : isinstance_str(texts[i])

\* generate_embeddings(texts): raised and ret as for the manager's methods;
\* invoked is the set of backends that were called.
generate_embeddings(g, texts, encode) ==
    IF texts = <<>> THEN [raised |-> "", ret |-> <<>>, invoked |-> {}]
    ELSE IF ~AllStrings(texts)
    THEN [raised |-> "ValueError", ret |-> <<>>, invoked |-> {}]
    ELSE LET kept == SelectSeq(texts, NotBlank)
             processed_texts == [i \in DOMAIN kept |-> strip(kept[i][2])]
         IN IF processed_texts = <<>>
            THEN [raised |-> "", invoked |-> {},
                  ret |-> [i \in DOMAIN texts |-> ZeroVector(g.embedding_dim)]]
            ELSE IF g.use_fallback
            THEN [raised |-> "", invoked |-> {"fallback"},
                  ret |-> _generate_fallback_embeddings(texts, g.embedding_dim)]
            ELSE LET r == _generate_model_embeddings(g, processed_texts, encode)
                 IN IF r.ok
                    THEN [raised |-> "", ret |-> r.result, invoked |-> {"model"}]
                    ELSE [raised |-> "RuntimeError", ret |-> <<>>,
                          invoked |-> {"model"}]

\* The dimensions of the models that SentenceTransformer can return.
ModelDims == {3, 4}

\* What SentenceTransformer(model_name) can do.
Loads ==
    {[raises |-> e, dim |-> 0] : e \in {"ImportError", "Exception"}}
        \cup {[raises |-> "", dim |-> d] : d \in ModelDims}

\* "", " ", "a", "A ", "b", "bb", and None.
EmbInputs ==
    {PyStr(<<>>), PyStr(<<32>>), PyStr(<<97>>), PyStr(<<65, 32>>),
     PyStr(<<98>>), PyStr(<<98, 98>>), PyNone}

\* generate_embeddings is called with at most MaxTexts texts.
MaxTexts == 2

Construct ==
    /\ ~gen.constructed /\ gen.raised = ""
    /\ \E ssl \in {"ok", "ImportError", "SSLError"},
          load \in Loads,
          trial \in {"ok", "Exception"} :
         /\ gen' = EmbeddingGenerator(ssl, load, trial)
         /\ last' = [op |-> "EmbeddingGenerator", ssl |-> ssl,
                     load |-> load,
                     trial |-> trial]
    /\ UNCHANGED <<collection, validatesIds, clock, calls, rag>>

GenerateEmbeddings ==
    /\ clock <= MaxClock
    /\ gen.constructed
    /\ \E texts \in SeqsUpTo(EmbInputs, MaxTexts),
          encode \in IF gen.use_fallback THEN {"ok"} ELSE {"ok", "Exception"} :
         \E o \in {generate_embeddings(gen, texts, encode)} :
           /\ last' = [op |-> "generate_embeddings", texts |-> texts,
                       encode |-> encode, raised |-> o.raised, ret |-> o.ret,
                       invoked |-> o.invoked]
           /\ clock' = clock + 1
    /\ UNCHANGED <<collection, validatesIds, calls, gen, rag>>

NextEmb ==
    \/ Construct
    \/ GenerateEmbeddings

InitEmb ==
    /\ collection = <<>>
    /\ validatesIds = TRUE
    /\ clock = 1
    /\ last = [op |-> "init"]
    /\ calls = [p \in Procs |-> NotCalled]
    /\ gen = NotConstructed
    /\ rag = NoPipeline

SpecEmb == InitEmb /\ [][NextEmb]_vars

(***************************************************************************)
(* RAGPipeline (app/rag.py).  The question is the sequence of its          *)
(* characters' code points.  A text the pipeline builds is the pair of its *)
(* fixed beginning and of what follows it.  The collaborators are the      *)
(* manager above and an embedding generator whose call on the question     *)
(* returns a vector of the collection's space or raises.                   *)
(***************************************************************************)
MODEL_SLUG == "openai/gpt-3.5-turbo"

_create_error_response(error_message) ==
    [answer |-> <<"Error: ", error_message>>,
     sources |-> <<>>,
     model_used |-> MODEL_SLUG,
     tokens_used |-> 0,
     processing_time |-> 0,
     context_documents_found |-> 0]

\* self.embedding_generator.generate_embeddings([question])[0]; embed is what
\* the call does: "ok" or the exception it raises.
QueryEmbedding(question) ==
    IF strip(lower(question)) = <<97>> THEN <<1, 0>> ELSE <<0, 1>>

\* Lines 223-241: the prompt with the context, or the one without.
Prompt(context_docs) ==
    IF context_docs # <<>> THEN "Based on the following context"
    ELSE "I don't have any specific context documents"

\* _call_openrouter_api; api is what requests.post and the parsing of its
\* response do: "ok", a requests.RequestException ("Timeout",
\* "ConnectionError", "HTTPError"), or the exception that
\* data["choices"][0]["message"]["content"] raises on a malformed body
\* ("KeyError" for a missing key, "IndexError" for an empty choices list,
\* "TypeError" for a value of the wrong type).
\* _call_openrouter_api whose handler of line 299 lets requests.Timeout pass.
_call_openrouter_api_timeout_uncaught(context_docs, api) ==
    CASE api = "ok" ->
            [raised |-> "", answer |-> <<"", Prompt(context_docs)>>,
             tokens_used |-> 42]
      [] api \in {"ConnectionError", "HTTPError"} ->
            [raised |-> "", answer |-> <<"API Error: ", api>>, tokens_used |-> 0]
      [] api = "KeyError" ->
            [raised |-> "",
             answer |-> <<"Error: Unexpected response format from API", "">>,
             tokens_used |-> 0]
      [] OTHER -> [raised |-> api, answer |-> <<"", "">>, tokens_used |-> 0]

_call_openrouter_api(context_docs, api) ==
    CASE api = "ok" ->
            [raised |-> "", answer |-> <<"", Prompt(context_docs)>>,
             tokens_used |-> 42]
      [] api \in {"Timeout", "ConnectionError", "HTTPError"} ->
            [raised |-> "", answer |-> <<"API Error: ", api>>, tokens_used |-> 0]
      [] api = "KeyError" ->
            [raised |-> "",
             answer |-> <<"Error: Unexpected response format from API", "">>,
             tokens_used |-> 0]
      [] OTHER -> [raised |-> api, answer |-> <<"", "">>, tokens_used |-> 0]

SIMULATED_NOTE ==
    "Note: This is a simulated response because no OpenRouter API key was provided."

\* A mock answer that reports the absence of context as an error.
_generate_mock_answer_needing_context(context_docs) ==
    IF context_docs # <<>>
    THEN <<"Based on the retrieved context, I found ",
           ToString(Len(context_docs)), SIMULATED_NOTE>>
    ELSE <<"Error: ", "No relevant documents">>

\* A mock answer without the note of lines 356 and 360.
_generate_mock_answer_unlabelled(context_docs) ==
    IF context_docs # <<>>
    THEN <<"Based on the retrieved context, I found ",
           ToString(Len(context_docs))>>
    ELSE <<"I couldn't find any relevant documents in the database", "">>

\* The mock answer is its beginning, the count of the documents when it
\* states it, and its closing note.
_generate_mock_answer(context_docs) ==
    IF context_docs # <<>>
    THEN <<"Based on the retrieved context, I found ",
           ToString(Len(context_docs)), SIMULATED_NOTE>>
    ELSE <<"I couldn't find any relevant documents in the database", "",
           SIMULATED_NOTE>>

\* max(0.0, 1.0 - distance / 2.0) without its clamp.
similarity_score_unclamped(distance) == 2 * Scale - distance

\* similarity_score = max(0.0, 1.0 - (distance / 2.0)) (rag.py line 380,
\* main.py line 312): the distance in units of 1/Scale, the score in units of
\* 1/(2 * Scale), so that the halving is exact.
similarity_score(distance) == Max(0, 2 * Scale - distance)

\* Python's round(x, ndigits) for ndigits in 0..4, on a score x in units of
\* 1/(2 * Scale); the result is in units of 1/Scale.  A value half way
\* between two multiples goes to the even one.
round(x, ndigits) ==
    LET step == 2 * (CASE ndigits = 4 -> 1 [] ndigits = 3 -> 10
                       [] ndigits = 2 -> 100 [] ndigits = 1 -> 1000
                       [] OTHER -> 10000)
        q == x \div step
        r == x % step
        n == IF 2 * r < step THEN q
             ELSE IF 2 * r > step THEN q + 1
             ELSE IF q % 2 = 0 THEN q ELSE q + 1
    IN (n * step) \div 2

\* "score": round(similarity_score, 3) of _format_sources.
SourceScore(distance) == round(similarity_score(distance), 3)

\* score=round(similarity_score, 4) of the search endpoint.
SearchResultScore(distance) == round(similarity_score(distance), 4)

\* _format_sources listing the sources last first.
_format_sources_reversed(documents, metadatas, distances) ==
    LET n == Min(Len(documents), Min(Len(metadatas), Len(distances)))
    IN [i \in 1..n |->
           [content |-> documents[n + 1 - i],
            score |-> SourceScore(distances[n + 1 - i] * Scale),
            metadata |-> metadatas[n + 1 - i]]]

\* The store's distances are whole numbers in this model.
_format_sources(documents, metadatas, distances) ==
    [i \in 1..Min(Len(documents), Min(Len(metadatas), Len(distances))) |->
        [content |-> documents[i],
         score |-> SourceScore(distances[i] * Scale),
         metadata |-> metadatas[i]]]

\* Lines 101-128 without the validation of lines 102-104.
RetrieveUnvalidated(coll, question, max_results, embed, order, fault) ==
    IF embed # "ok"
    THEN [stage |-> "embed", error |-> "Failed to generate answer: ",
          called |-> <<"embed">>, context_docs |-> <<>>, sources |-> <<>>,
          distances |-> <<>>]
    ELSE LET search_results == search(coll, QueryEmbedding(question),
                                      max_results, order, fault)
         IN IF search_results.raised # ""
            THEN [stage |-> "search", error |-> "Failed to generate answer: ",
                  called |-> <<"embed", "search">>, context_docs |-> <<>>,
                  sources |-> <<>>, distances |-> <<>>]
            ELSE [stage |-> "generate", error |-> "",
                  called |-> <<"embed", "search">>,
                  context_docs |-> search_results.ret.documents,
                  sources |-> search_results.ret.metadatas,
                  distances |-> search_results.ret.distances]

\* Lines 101-128 with a failure of the search taken for an empty result.
RetrieveSearchSwallowed(coll, question, max_results, embed, order, fault) ==
    IF strip(question) = <<>>
    THEN [stage |-> "validate", error |-> "Question cannot be empty",
          called |-> <<>>, context_docs |-> <<>>, sources |-> <<>>,
          distances |-> <<>>]
    ELSE IF embed # "ok"
    THEN [stage |-> "embed", error |-> "Failed to generate answer: ",
          called |-> <<"embed">>, context_docs |-> <<>>, sources |-> <<>>,
          distances |-> <<>>]
    ELSE [stage |-> "generate", error |-> "", called |-> <<"embed", "search">>,
          context_docs |-> <<>>, sources |-> <<>>, distances |-> <<>>]

\* Lines 101-128 with the search run even when the embedding has failed.
RetrieveSearchingAnyway(coll, question, max_results, embed, order, fault) ==
    IF strip(question) = <<>>
    THEN [stage |-> "validate", error |-> "Question cannot be empty",
          called |-> <<>>, context_docs |-> <<>>, sources |-> <<>>,
          distances |-> <<>>]
    ELSE [stage |-> IF embed # "ok" THEN "embed" ELSE "search",
          error |-> "Failed to generate answer: ",
          called |-> <<"embed", "search">>, context_docs |-> <<>>,
          sources |-> <<>>, distances |-> <<>>]

\* Lines 101-128: validation, embedding of the question and search.  stage
\* is where the call stands afterwards, error the message of the error
\* response when it has ended, called the collaborators it has called, in order.
Retrieve(coll, question, max_results, embed, order, fault) ==
    IF strip(question) = <<>>
    THEN [stage |-> "validate", error |-> "Question cannot be empty",
          called |-> <<>>, context_docs |-> <<>>, sources |-> <<>>,
          distances |-> <<>>]
    ELSE IF embed # "ok"
    THEN [stage |-> "embed", error |-> "Failed to generate answer: ",
          called |-> <<"embed">>, context_docs |-> <<>>, sources |-> <<>>,
          distances |-> <<>>]
    ELSE LET search_results == search(coll, QueryEmbedding(question),
                                      max_results, order, fault)
         IN IF search_results.raised # ""
            THEN [stage |-> "search", error |-> "Failed to generate answer: ",
                  called |-> <<"embed", "search">>, context_docs |-> <<>>,
                  sources |-> <<>>, distances |-> <<>>]
            ELSE [stage |-> "generate", error |-> "",
                  called |-> <<"embed", "search">>,
                  context_docs |-> search_results.ret.documents,
                  sources |-> search_results.ret.metadatas,
                  distances |-> search_results.ret.distances]

\* The generation stage has not run.
NotGenerated == [raised |-> "", answer |-> <<"", "">>, tokens_used |-> 0]

\* generate_answer(question, max_results) on a pipeline with this
\* use_mock_llm.  format is what the body of _format_sources' loop does ("ok"
\* or the exception it raises on a retrieved item), elapsed is
\* time.time() - start_time at line 143.
generate_answer(coll, use_mock_llm, question, max_results, embed, order, fault, api, format, elapsed) ==
    LET r == Retrieve(coll, question, max_results, embed, order, fault)
        generated ==
            IF use_mock_llm
            THEN [raised |-> "", answer |-> _generate_mock_answer(r.context_docs),
                  tokens_used |-> 0]
            ELSE _call_openrouter_api(r.context_docs, api)
        called == Append(r.called, IF use_mock_llm THEN "mock" ELSE "api")
    IN IF r.error # ""
       THEN [response |-> _create_error_response(r.error), called |-> r.called,
             generated |-> NotGenerated]
       ELSE IF generated.raised # "" \/ (format # "ok" /\ r.context_docs # <<>>)
       THEN [response |-> _create_error_response("Failed to generate answer: "),
             called |-> called, generated |-> generated]
       ELSE [response |->
                [answer |-> generated.answer,
                 sources |-> _format_sources(r.context_docs, r.sources,
                                             r.distances),
                 model_used |-> MODEL_SLUG,
                 tokens_used |-> generated.tokens_used,
                 processing_time |-> elapsed,
                 context_documents_found |-> Len(r.context_docs)],
             called |-> called, generated |-> generated]

(***************************************************************************)
(* The RAGPipeline's specification.  A call of generate_answer is one step *)
(* unless it reaches requests.post, where it waits for the response or for *)
(* the timeout, and a second step takes it from there to its return.       *)
(***************************************************************************)
REQUEST_TIMEOUT == 30

PLACEHOLDER_API_KEY == "your_openrouter_api_key_here"

ApiKeys == {"", PLACEHOLDER_API_KEY, "sk-or-v1-key"}

\* Config.is_api_key_configured, on the OPENROUTER_API_KEY of the
\* configuration.
is_api_key_configured(OPENROUTER_API_KEY) ==
    OPENROUTER_API_KEY # "" /\ OPENROUTER_API_KEY # PLACEHOLDER_API_KEY

\* RAGPipeline(db_manager, embedding_generator, api_key): api_key is kept
\* for the Authorization header, and the mode is taken from the
\* configuration's key (line 54).
RAGPipeline(api_key, config_api_key) ==
    [NoPipeline EXCEPT !.constructed = TRUE,
                       !.api_key = api_key,
                       !.config_api_key = config_api_key,
                       !.use_mock_llm = ~is_api_key_configured(config_api_key)]

Questions == {<<>>, <<32>>, <<97>>, <<98, 98>>}

MaxResults == {1, 3}

RequestExceptions == {"Timeout", "ConnectionError", "HTTPError"}

ApiResponses ==
    {"ok", "ConnectionError", "HTTPError", "KeyError", "IndexError",
     "TypeError"}

\* A collection that holds two documents, one on each axis.
TwoDocuments ==
    [k \in {Some("d1"), Some("d2")} |->
        IF k = Some("d1")
        THEN Record("a", <<1, 0>>,
                    <<<<"timestamp", 0>>, <<"text_length", Len("a")>>>>)
        ELSE Record("bb", <<0, 1>>,
                    <<<<"timestamp", 0>>, <<"text_length", Len("bb")>>,
                      <<"source", "test">>>>)]

InitRag ==
    /\ collection \in {<<>>, Persisted, TwoDocuments}
    /\ validatesIds = TRUE
    /\ clock = 1
    /\ last = [op |-> "init"]
    /\ calls = [p \in Procs |-> NotCalled]
    /\ gen = NotConstructed
    /\ rag = NoPipeline

\* The call returns: its response, the collaborators it called and what its
\* generation stage returned or raised.
Return(call, api, format, elapsed) ==
    \E o \in {generate_answer(collection, call.use_mock_llm, call.question,
                               call.max_results, call.embed, call.order,
                               call.fault, api, format, elapsed)} :
       rag' = [call EXCEPT !.pc = "done", !.api = api, !.format = format,
                           !.response = Some(o.response),
                           !.called = o.called, !.generated = o.generated]

\* What the loop of _format_sources can do on the documents retrieved: there
\* is nothing to fail on when there is none.
Formats(r) ==
    IF r.error = "" /\ r.context_docs # <<>> THEN {"ok", "TypeError"}
    ELSE {"ok"}

\* time.time() - start_time, rounded, where line 143 is reached.
Elapsed(r) == IF r.error = "" THEN {0, 1} ELSE {0}

\* The retrieval of the call in flight.
Retrieval(call) ==
    Retrieve(collection, call.question, call.max_results, call.embed,
             call.order, call.fault)

\* RAGPipeline(db_manager, embedding_generator, api_key), under a
\* configuration whose OPENROUTER_API_KEY is config_api_key.
ConstructPipeline ==
    /\ ~rag.constructed
    /\ \E api_key \in ApiKeys, config_api_key \in ApiKeys :
          rag' = RAGPipeline(api_key, config_api_key)
    /\ UNCHANGED <<collection, validatesIds, clock, last, calls, gen>>

AskQuestion ==
    /\ clock <= MaxClock
    /\ rag.constructed
    /\ rag.pc # "waiting"
    /\ \E question \in Questions, max_results \in MaxResults,
          embed \in {"ok", "RuntimeError"}, fault \in {{}, {"query"}} :
       \E order \in Orderings(collection, QueryEmbedding(question)) :
          LET call == [RAGPipeline(rag.api_key, rag.config_api_key) EXCEPT
                          !.question = question,
                          !.max_results = max_results,
                          !.embed = embed, !.order = order, !.fault = fault]
              r == Retrieve(collection, question, max_results, embed, order,
                            fault)
          IN IF r.error = "" /\ ~rag.use_mock_llm
             THEN rag' = [call EXCEPT
                             !.pc = "waiting",
                             !.called = Append(r.called, "api"),
                             !.authorization = Some(<<"Bearer ", rag.api_key>>)]
             ELSE \E format \in Formats(r), elapsed \in Elapsed(r) :
                     Return(call, "", format, elapsed)
    /\ clock' = clock + 1
    /\ UNCHANGED <<collection, validatesIds, last, calls, gen>>

\* requests.post returns, or raises something other than a timeout.
ApiResponds ==
    /\ rag.pc = "waiting"
    /\ \E api \in ApiResponses, format \in Formats(Retrieval(rag)),
          elapsed \in {0, 1} :
          Return(rag, api, format, elapsed)
    /\ UNCHANGED <<collection, validatesIds, clock, last, calls, gen>>

\* No response within self.request_timeout seconds: requests.post raises
\* requests.Timeout.
ApiTimesOut ==
    /\ rag.pc = "waiting"
    /\ \E format \in Formats(Retrieval(rag)) :
          Return(rag, "Timeout", format, REQUEST_TIMEOUT)
    /\ UNCHANGED <<collection, validatesIds, clock, last, calls, gen>>

NextRag ==
    \/ ConstructPipeline
    \/ AskQuestion
    \/ ApiResponds
    \/ ApiTimesOut

SpecRag == InitRag /\ [][NextRag]_vars

\* requests.post is given timeout=self.request_timeout: a call that waits
\* gets its response or its timeout.
FairSpecRag == SpecRag /\ WF_vars(ApiResponds \/ ApiTimesOut)

(***************************************************************************)
(* The scores reported for a distance, by the sources of an Answer and by  *)
(* the search endpoint.  Distances are in units of 1/Scale.                *)
(***************************************************************************)
Distances ==
    {0, 2, 4, 12, 22, 5000, 10000, 15000, 19996, 20000, 30000, 40000}

InitScore ==
    /\ collection = <<>>
    /\ validatesIds = TRUE
    /\ clock = 1
    /\ last = [op |-> "init"]
    /\ calls = [p \in Procs |-> NotCalled]
    /\ gen = NotConstructed
    /\ rag = NoPipeline

\* Two results, at distances d1 and d2, are scored by both paths.
ScoreDistances ==
    /\ \E d1 \in Distances, d2 \in Distances :
          last' = [op |-> "score", d1 |-> d1, d2 |-> d2,
                   source1 |-> SourceScore(d1), source2 |-> SourceScore(d2),
                   endpoint1 |-> SearchResultScore(d1),
                   endpoint2 |-> SearchResultScore(d2)]
    /\ UNCHANGED <<collection, validatesIds, clock, calls, gen, rag>>

NextScore == ScoreDistances

SpecScore == InitScore /\ [][NextScore]_vars

(***************************************************************************)
(* Start-up (lifespan of app/main.py): the ChromaDBManager, the            *)
(* EmbeddingGenerator and the RAGPipeline are constructed in this order,   *)
(* and an exception of a constructor ends the start-up.  An exception is   *)
(* the pair of its type and of the beginning of its message, <<"", "">>    *)
(* when there is none.                                                     *)
(***************************************************************************)
NoException == <<"", "">>

BackendExceptions ==
    {<<"Exception", "Database connection failed">>,
     <<"ValueError", "Invalid collection name">>}

\* ChromaDBManager(collection_name): what the constructor raises.  client is
\* what chromadb.PersistentClient raises, create what get_or_create_collection
\* raises; the handler of lines 52-59 logs and re-raises the exception it
\* caught.
ChromaDBManager(client, create) ==
    IF client # NoException THEN client
    ELSE IF create # NoException THEN create
    ELSE NoException

InitStartup ==
    /\ collection \in {<<>>, Persisted}
    /\ validatesIds = TRUE
    /\ clock = 1
    /\ last = [op |-> "init"]
    /\ calls = [p \in Procs |-> NotCalled]
    /\ gen = NotConstructed
    /\ rag = NoPipeline

StartManager ==
    /\ last.op = "init"
    /\ \E client \in {NoException} \cup BackendExceptions,
          create \in {NoException} \cup BackendExceptions :
          last' = [op |-> "ChromaDBManager", client |-> client,
                   create |-> create,
                   raised |-> ChromaDBManager(client, create)]
    /\ UNCHANGED <<collection, validatesIds, clock, calls, gen, rag>>

StartGenerator ==
    /\ last.op = "ChromaDBManager"
    /\ last.raised = NoException
    /\ Construct

\* The pipeline is given the configuration's key.
StartPipeline ==
    /\ last.op = "EmbeddingGenerator"
    /\ gen.constructed
    /\ ~rag.constructed
    /\ \E OPENROUTER_API_KEY \in ApiKeys :
          rag' = RAGPipeline(OPENROUTER_API_KEY, OPENROUTER_API_KEY)
    /\ UNCHANGED <<collection, validatesIds, clock, last, calls, gen>>

NextStartup ==
    \/ StartManager
    \/ StartGenerator
    \/ StartPipeline

SpecStartup == InitStartup /\ [][NextStartup]_vars

(***************************************************************************)
(* Properties of the sequential manager (Spec).                            *)
(***************************************************************************)
Stored(coll) == Cardinality(DOMAIN coll)

\* The items of a dict the caller supplied: the stored metadata without the
\* two stamps.
CallerItems(md) ==
    {md[i] : i \in {j \in DOMAIN md : md[j][1] \notin {"timestamp", "text_length"}}}

ItemsOf(metadata) ==
    IF metadata = None THEN {} ELSE {Val(metadata)[i] : i \in DOMAIN Val(metadata)}

\* C1: when an add_document call is followed by another with the same text
\* and metadata, both with allow_duplicates = false and no backend call
\* failing, both return the same id, the second call leaves the collection as
\* it was, and the Document stored under that id holds this content.
C1_AddTwiceIsIdempotent ==
    [][(/\ last.op = "add_document" /\ last'.op = "add_document"
        /\ last'.text = last.text /\ last'.metadata = last.metadata
        /\ ~last.allow_duplicates /\ ~last'.allow_duplicates
        /\ last.fault = {} /\ last'.fault = {})
          => /\ last.raised = "" /\ last'.raised = ""
             /\ last'.ret = last.ret
             /\ collection' = collection
             /\ last.ret \in DOMAIN collection
             /\ collection[last.ret].document = last.text
             /\ CallerItems(collection[last.ret].metadata)
                   = ItemsOf(last.metadata)]_vars

\* C2: an add_document call that returns normally returns an id that is not
\* None.
C2_AddReturnsAnId ==
    (last.op = "add_document" /\ last.raised = "") => last.ret # None

\* C3: the id add_document returns is a function of the text and of the
\* metadata items: a call that follows one with the same text and the same
\* items returns the same id, whatever the time between them, and a call that
\* follows one with another text returns another id.
C3_IdIsFunctionOfContent ==
    [][(/\ last.op = "add_document" /\ last'.op = "add_document"
        /\ last.raised = "" /\ last'.raised = "")
          => /\ (/\ last'.text = last.text
                 /\ ItemsOf(last'.metadata) = ItemsOf(last.metadata))
                    => last'.ret = last.ret
             /\ last'.text # last.text => last'.ret # last.ret]_vars

\* C4: when two add_document calls with allow_duplicates = False and the same
\* computed id have both run to their end on a backend that did not fail,
\* their steps interleaved in any order, at most one of them has added a
\* record, neither has raised, both have returned the one id, and that id is
\* stored.
C4_ConcurrentAddsInsertOnce ==
    (/\ \A p \in Procs : /\ calls[p].pc = "done"
                         /\ ~calls[p].allow_duplicates
                         /\ calls[p].fault = {}
     /\ calls[1].doc_id = calls[2].doc_id)
       => /\ ~(calls[1].added /\ calls[2].added)
          /\ \A p \in Procs : calls[p].raised = ""
          /\ \A p \in Procs : calls[p].ret = calls[p].doc_id
          /\ calls[1].doc_id \in DOMAIN collection

\* C5: an update_document call on an id that is not stored returns False
\* without raising and leaves the collection as it was, whichever fields are
\* supplied and whichever backend calls fail.
C5_UpdateOfMissingIdReturnsFalse ==
    [][(last'.op = "update_document" /\ last'.doc_id \notin DOMAIN collection)
          => (last'.raised = "" /\ last'.ret = FALSE
              /\ collection' = collection)]_vars

C5_Witness ==
    /\ last.op = "update_document"
    /\ last.doc_id \notin DOMAIN collection
    /\ last.fields = {"text", "embedding", "metadata"}
    /\ last.failed = {}
    /\ last.ret = FALSE
    /\ DOMAIN collection # {}

\* C6: update_document(id, text = new) on a stored id, with no embedding and
\* no metadata supplied and no backend call failing, returns True, and
\* get_document(id) then returns the new text and a timestamp that is the
\* time of the update (the clock has advanced by one since).
C6_UpdateOfTextRestampsTimestamp ==
    (/\ last.op = "update_document"
     /\ last.doc_id \in DOMAIN collection
     /\ last.fields = {"text"}
     /\ last.fault = {})
       => LET got == get_document(collection, last.doc_id, {}).ret
          IN /\ last.raised = "" /\ last.ret = TRUE
             /\ got # None
             /\ Val(got).document = Val(last.text)
             /\ DictGet(Val(got).metadata, "timestamp") = clock - 1

\* C7: no delete_document call raises.  With the backend not failing, a call
\* on a stored id returns True, after it get_document(id) is None and every
\* other Document is as before; a call on an id that is not stored returns
\* False and leaves the collection as it was.
C7_DeleteRemovesExactlyThatDocument ==
    [][(last'.op = "delete_document") =>
          /\ last'.raised = ""
          /\ last'.fault = {} =>
                IF last'.doc_id \in DOMAIN collection
                THEN /\ last'.ret = TRUE
                     /\ get_document(collection', last'.doc_id, {}).ret = None
                     /\ DOMAIN collection' = DOMAIN collection \ {last'.doc_id}
                     /\ \A id \in DOMAIN collection' :
                            collection'[id] = collection[id]
                ELSE /\ last'.ret = FALSE
                     /\ collection' = collection]_vars

C7_Witness ==
    /\ last.op = "delete_document"
    /\ last.fault = {}
    /\ last.ret = TRUE
    /\ last.doc_id \notin DOMAIN collection
    /\ DOMAIN collection # {}

\* C8: a bulk_add_documents call with allow_duplicates = false that returns
\* returns exactly the ids of the Documents it inserted, one entry for each
\* (the id of a skipped document is not in the list).
C8_BulkAddReturnsTheInsertedIds ==
    [][(/\ last'.op = "bulk_add_documents"
        /\ ~last'.allow_duplicates
        /\ last'.raised = "")
          => LET inserted == DOMAIN collection' \ DOMAIN collection
             IN /\ {last'.ret[i] : i \in DOMAIN last'.ret} = inserted
                /\ Len(last'.ret) = Cardinality(inserted)]_vars

\* C9 as the spec states it: a search that returns has clamped k to
\* [1, MAX_SEARCH_DOCUMENTS]; k = 100 returns at most 50 results and k = 0
\* returns at least 1 result.
C9_SearchReturnsAtLeastOne ==
    (last.op = "search" /\ last.raised = "") =>
        /\ last.asked \in 1..MAX_SEARCH_DOCUMENTS
        /\ last.n_results = 100 => Len(last.ret.ids) <= 50
        /\ last.n_results = 0 => Len(last.ret.ids) >= 1

\* C9, amended: search asks the backend for max(1, min(k, 50)) results and
\* returns that many, or every stored Document when fewer are stored: k = 100
\* returns at most 50 results, and k = 0 returns one result whenever a
\* Document is stored (none from an empty collection).
C9_SearchClampsTheCount ==
    (last.op = "search" /\ last.raised = "") =>
        LET k == last.n_results
            n == Len(last.ret.ids)
        IN /\ last.asked \in 1..MAX_SEARCH_DOCUMENTS
           /\ k < 1 => last.asked = 1
           /\ k \in 1..MAX_SEARCH_DOCUMENTS => last.asked = k
           /\ k > MAX_SEARCH_DOCUMENTS => last.asked = MAX_SEARCH_DOCUMENTS
           /\ n = Min(last.asked, Stored(collection))
           /\ Len(last.ret.documents) = n /\ Len(last.ret.distances) = n
           /\ Len(last.ret.metadatas) = n

C9_Witness ==
    /\ last.op = "search"
    /\ last.raised = ""
    /\ last.n_results = 0
    /\ Len(last.ret.ids) = 1
    /\ Stored(collection) = 2

\* C10 as the spec states it: every backend failure during add_document,
\* bulk_add_documents or search reaches the caller as RuntimeError, and
\* update_document, delete_document and get_document never raise.
C10_BackendFailureIsRaised ==
    /\ (last.op \in {"add_document", "bulk_add_documents", "search"}
        /\ last.failed # {}) => last.raised = "RuntimeError"
    /\ last.op \in {"update_document", "delete_document", "get_document"}
          => last.raised = ""

\* C10, amended: a failure of the backend's add call during add_document or
\* bulk_add_documents, or of its query call during search, reaches the caller
\* as RuntimeError; a failure of the existence check alone is swallowed (the
\* id counts as not stored) and the call returns normally.  update_document,
\* delete_document and get_document never raise: an id that is not stored
\* gives False, respectively None.
C10_WriteFailureIsRaised ==
    /\ (last.op \in {"add_document", "bulk_add_documents"}
        /\ "add" \in last.failed) => last.raised = "RuntimeError"
    /\ (last.op = "search" /\ "query" \in last.failed)
          => last.raised = "RuntimeError"
    /\ (last.op \in {"add_document", "bulk_add_documents", "search"}
        /\ last.failed \subseteq {"get"}) => last.raised = ""
    /\ last.op \in {"update_document", "delete_document", "get_document"}
          => last.raised = ""
    /\ last.op \in {"update_document", "delete_document"}
          => last.ret \in BOOLEAN
    /\ (last.op = "update_document" /\ last.doc_id \notin DOMAIN collection)
          => last.ret = FALSE
    /\ (last.op = "get_document" /\ last.doc_id \notin DOMAIN collection)
          => last.ret = None

C10_Witness ==
    /\ ~validatesIds
    /\ last.op = "add_document"
    /\ last.fault = {"add"}
    /\ last.failed = {"add"}
    /\ last.raised = "RuntimeError"

(***************************************************************************)
(* Properties of the EmbeddingGenerator (SpecEmb).                         *)
(***************************************************************************)
IsBlank(text) == \A i \in DOMAIN text[2] : IsSpace(text[2][i])

\* C11: a generate_embeddings call on a sequence of strings that returns, in
\* model mode or in fallback mode, returns one vector for each element of
\* its input, each of embedding_dim elements, and the vector of an empty or
\* whitespace-only element is the zero vector.
C11_OneVectorPerInput ==
    (/\ last.op = "generate_embeddings"
     /\ AllStrings(last.texts)
     /\ last.raised = "")
       => /\ Len(last.ret) = Len(last.texts)
          /\ \A i \in DOMAIN last.ret : Len(last.ret[i]) = gen.embedding_dim
          /\ \A i \in DOMAIN last.texts :
                IsBlank(last.texts[i])
                   => last.ret[i] = ZeroVector(gen.embedding_dim)

\* C12: a generate_embeddings call on a sequence that holds an element that
\* is not a string raises ValueError (not the RuntimeError that wraps a
\* failure of generation), and neither the model nor the fallback is called.
C12_NonStringIsValueError ==
    (/\ last.op = "generate_embeddings"
     /\ \E i \in DOMAIN last.texts : ~isinstance_str(last.texts[i]))
       => /\ last.raised = "ValueError"
          /\ last.invoked = {}

C12_Witness ==
    /\ last.op = "generate_embeddings"
    /\ last.texts = <<PyStr(<<97>>), PyNone>>
    /\ ~gen.use_fallback
    /\ last.encode = "Exception"
    /\ last.raised = "ValueError"

C14_DistinctTextsDiffer ==
    (/\ last.op = "generate_embeddings"
     /\ gen.use_fallback
     /\ last.raised = "" /\ AllStrings(last.texts))
       => \A i, j \in DOMAIN last.texts :
             (/\ last.texts[i] # last.texts[j]
              /\ last.texts[i][2] # <<>> /\ last.texts[j][2] # <<>>)
                => last.ret[i] # last.ret[j]

\* C14, amended: in fallback mode two texts that are not blank get different
\* vectors when they differ after lower-casing and stripping, and the same
\* vector when they do not; a text that is not blank never gets the zero
\* vector of a blank one.
C14_DistinctNormalizedTextsDiffer ==
    (/\ last.op = "generate_embeddings"
     /\ gen.use_fallback
     /\ last.raised = "" /\ AllStrings(last.texts))
       => \A i, j \in DOMAIN last.texts :
             /\ (NotBlank(last.texts[i]) /\ NotBlank(last.texts[j]))
                   => ((last.ret[i] = last.ret[j])
                         <=> (strip(lower(last.texts[i][2]))
                                = strip(lower(last.texts[j][2]))))
             /\ (NotBlank(last.texts[i]) /\ ~NotBlank(last.texts[j]))
                   => last.ret[i] # last.ret[j]

C14_Witness ==
    /\ last.op = "generate_embeddings"
    /\ gen.use_fallback
    /\ last.texts = <<PyStr(<<97>>), PyStr(<<98>>)>>
    /\ last.raised = ""
    /\ last.ret[1] # last.ret[2]

\* C15: constructing an EmbeddingGenerator never raises.  When
\* SentenceTransformer raises or the trial encode raises, the generator is in
\* fallback mode: use_fallback, no model, embedding_dim 384.  When both
\* succeed it is in model mode, embedding_dim the length of the trial
\* embedding.  use_fallback holds exactly when no model is held.
C15_ConstructionNeverRaises ==
    (last.op = "EmbeddingGenerator")
       => /\ gen.raised = "" /\ gen.constructed
          /\ (last.load.raises # "" \/ last.trial = "Exception")
                => /\ gen.use_fallback /\ gen.model = None
                   /\ gen.embedding_dim = DEFAULT_EMBEDDING_DIM
          /\ (last.load.raises = "" /\ last.trial = "ok")
                => /\ ~gen.use_fallback /\ gen.model = Some(last.load)
                   /\ gen.embedding_dim = last.load.dim
          /\ gen.use_fallback <=> (gen.model = None)

(***************************************************************************)
(* Properties of the RAGPipeline (SpecRag, FairSpecRag).                   *)
(***************************************************************************)
Returned == rag.pc = "done"

\* The collaborators the call has called.
Called == {rag.called[i] : i \in DOMAIN rag.called}

Response == Val(rag.response)

\* answer.startswith("Error:"), of the texts the pipeline builds.
BeginsWithError(answer) ==
    answer[1] \in {"Error: ", "Error: Unexpected response format from API"}

\* The standardized error Answer: answer beginning "Error:", no sources,
\* tokens_used, processing_time and context_documents_found zero.
StandardError(response) ==
    /\ BeginsWithError(response.answer)
    /\ response.sources = <<>>
    /\ response.tokens_used = 0
    /\ response.processing_time = 0
    /\ response.context_documents_found = 0

\* C16: generate_answer with an empty or whitespace-only question returns the
\* error Answer (answer beginning "Error:", no sources, tokens_used 0,
\* processing_time 0, context_documents_found 0) and calls neither the
\* embedding generator, nor the vector store, nor the generation.
C16_BlankQuestionShortCircuits ==
    (Returned /\ strip(rag.question) = <<>>)
       => /\ StandardError(Response)
          /\ Response.answer = <<"Error: ", "Question cannot be empty">>
          /\ Called = {}

C16_Witness ==
    /\ Returned
    /\ rag.question = <<32>>
    /\ ~rag.use_mock_llm
    /\ rag.embed = "RuntimeError"
    /\ StandardError(Response)
    /\ Called = {}

\* The stages of the returned call that failed.
EmbeddingFailed == rag.embed # "ok"

SearchFailed == rag.embed = "ok" /\ "query" \in rag.fault

\* The number of documents the search of the returned call found.
Retrieved ==
    Min(clamp_n_results(rag.max_results), Cardinality(DOMAIN collection))

GenerationReached == ~EmbeddingFailed /\ ~SearchFailed

GenerationFailed ==
    GenerationReached /\ ~rag.use_mock_llm /\ rag.api # "ok"

FormattingFailed ==
    /\ GenerationReached
    /\ rag.use_mock_llm \/ rag.api \notin {"IndexError", "TypeError"}
    /\ rag.format # "ok" /\ Retrieved > 0

\* C17 (as stated): whichever stage of generate_answer fails (embedding,
\* search, generation, formatting of the sources), the call returns the
\* standardized error Answer.
C17_AnyFailureIsStandardError ==
    (/\ Returned /\ strip(rag.question) # <<>>
     /\ EmbeddingFailed \/ SearchFailed \/ GenerationFailed
           \/ FormattingFailed)
       => StandardError(Response)

\* C17 (amended): generate_answer returns an Answer whichever stage fails.
\* It is the standardized error Answer when the embedding, the search or the
\* formatting of the sources fails, or when the generation raises something
\* that _call_openrouter_api does not catch.  A request exception or a
\* KeyError of the generation is caught inside _call_openrouter_api: the
\* Answer then carries "API Error: ..." or "Error: Unexpected response
\* format from API" with tokens_used 0, and keeps the sources and the count
\* of the documents found.
C17_FailureIsAnErrorOrApiErrorAnswer ==
    (Returned /\ strip(rag.question) # <<>>)
       => /\ rag.response # None
          /\ (EmbeddingFailed \/ SearchFailed \/ FormattingFailed
                \/ (GenerationFailed /\ rag.api \in {"IndexError", "TypeError"}))
                => Response = _create_error_response("Failed to generate answer: ")
          /\ (GenerationFailed /\ ~FormattingFailed
                /\ rag.api \in RequestExceptions \cup {"KeyError"})
                => /\ Response.answer =
                         IF rag.api = "KeyError"
                         THEN <<"Error: Unexpected response format from API", "">>
                         ELSE <<"API Error: ", rag.api>>
                   /\ Response.tokens_used = 0
                   /\ Response.context_documents_found = Retrieved
                   /\ Len(Response.sources) = Retrieved

C17_Witness ==
    /\ Returned
    /\ collection = Persisted
    /\ rag.question = <<97>>
    /\ ~rag.use_mock_llm
    /\ rag.api = "ConnectionError"
    /\ rag.format = "ok"
    /\ Response.answer = <<"API Error: ", "ConnectionError">>
    /\ Response.context_documents_found = 1

\* C18 (as stated): when the search finds nothing for a non-empty question,
\* generate_answer still runs the generation and returns a non-error Answer
\* whose context_documents_found is 0 and whose sources are empty.
C18_NoResultsIsNotAnError ==
    (/\ Returned /\ strip(rag.question) # <<>>
     /\ GenerationReached /\ Retrieved = 0)
       => /\ Called \cap {"mock", "api"} # {}
          /\ ~BeginsWithError(Response.answer)
          /\ Response.context_documents_found = 0
          /\ Response.sources = <<>>

\* C18 (amended): when the search finds nothing for a non-empty question,
\* generate_answer still runs the generation, without context, and the Answer
\* has context_documents_found 0 and no sources.  Its answer is the mock
\* answer, the text of the API's response, or "API Error: ..." after a
\* request exception; it begins with "Error:" when the API's response is
\* malformed.
C18_NoResultsStillGenerates ==
    (/\ Returned /\ strip(rag.question) # <<>>
     /\ GenerationReached /\ Retrieved = 0)
       => /\ Called = {"embed", "search"}
                \cup (IF rag.use_mock_llm THEN {"mock"} ELSE {"api"})
          /\ Response.context_documents_found = 0
          /\ Response.sources = <<>>
          /\ rag.use_mock_llm
                => Response.answer =
                      <<"I couldn't find any relevant documents in the database", "",
                        SIMULATED_NOTE>>
          /\ (~rag.use_mock_llm /\ rag.api = "ok")
                => Response.answer =
                      <<"", "I don't have any specific context documents">>
          /\ BeginsWithError(Response.answer)
                <=> (~rag.use_mock_llm
                      /\ rag.api \in {"KeyError", "IndexError", "TypeError"})

C18_Witness ==
    /\ Returned
    /\ collection = <<>>
    /\ rag.question = <<98, 98>>
    /\ rag.use_mock_llm
    /\ Called = {"embed", "search", "mock"}
    /\ Response.context_documents_found = 0
    /\ ~BeginsWithError(Response.answer)

\* C19: in live mode every failure of the external generation call is caught
\* inside the generation stage.  A network failure or a timeout yields an
\* answer beginning "API Error:", a malformed response body (a missing key,
\* an empty choices list, a value of the wrong type) yields "Error:
\* Unexpected response format from API", each with tokens_used 0, and the
\* stage raises nothing.
C19_GenerationCatchesEveryFailure ==
    (Returned /\ GenerationFailed)
       => /\ rag.generated.raised = ""
          /\ rag.generated.tokens_used = 0
          /\ rag.api \in RequestExceptions
                => rag.generated.answer = <<"API Error: ", rag.api>>
          /\ rag.api \in {"KeyError", "IndexError", "TypeError"}
                => rag.generated.answer =
                      <<"Error: Unexpected response format from API", "">>

\* C20 (as stated): when the external generation call times out, the outcome
\* of the request is the standardized error Answer (answer beginning
\* "Error:", no sources, zeroed numeric fields).
C20_TimeoutIsStandardError ==
    (Returned /\ rag.api = "Timeout") => StandardError(Response)

\* C20 (amended): a request that waits for the external generation call does
\* not hang: it returns.  When the call times out, the Answer carries "API
\* Error: ..." with tokens_used 0 and keeps the sources, the count of the
\* documents found and the processing time, which is at least the timeout;
\* it is the standardized error Answer only when the formatting of the
\* sources fails afterwards.
C20_TimeoutReturnsApiErrorAnswer ==
    (rag.pc = "waiting")
       ~> (/\ Returned
           /\ rag.api = "Timeout"
                 => IF FormattingFailed
                    THEN Response =
                            _create_error_response("Failed to generate answer: ")
                    ELSE /\ Response.answer = <<"API Error: ", "Timeout">>
                         /\ Response.tokens_used = 0
                         /\ Response.processing_time >= REQUEST_TIMEOUT
                         /\ Response.context_documents_found = Retrieved
                         /\ Len(Response.sources) = Retrieved)

C20_Witness ==
    /\ Returned
    /\ rag.api = "Timeout"
    /\ collection = Persisted
    /\ rag.format = "ok"
    /\ Response.answer = <<"API Error: ", "Timeout">>
    /\ Len(Response.sources) = 1
    /\ Response.processing_time = REQUEST_TIMEOUT

\* C21: in mock mode generate_answer issues no external HTTP call and returns
\* tokens_used 0; the answer its generation stage produces is labelled as
\* simulated and states how many context documents were found (that none
\* was found, when the search returned nothing).
C21_MockModeIsSimulated ==
    (Returned /\ rag.use_mock_llm)
       => /\ "api" \notin Called
          /\ Response.tokens_used = 0
          /\ (strip(rag.question) # <<>> /\ GenerationReached
                /\ ~FormattingFailed)
                => /\ "mock" \in Called
                   /\ Len(Response.answer) = 3
                   /\ Response.answer[3] = SIMULATED_NOTE
                   /\ Response.answer[1] =
                         IF Retrieved = 0
                         THEN "I couldn't find any relevant documents in the database"
                         ELSE "Based on the retrieved context, I found "
                   /\ Retrieved > 0
                         => Response.answer[2] = ToString(Retrieved)

C21_Witness ==
    /\ Returned
    /\ rag.use_mock_llm
    /\ collection = Persisted
    /\ rag.question = <<97>>
    /\ Called = {"embed", "search", "mock"}
    /\ Response.answer =
          <<"Based on the retrieved context, I found ", "1", SIMULATED_NOTE>>
    /\ Response.tokens_used = 0

(***************************************************************************)
(* Properties of the similarity scores (SpecScore).                        *)
(***************************************************************************)
\* C22 (as stated): every score reported is max(0, 1 - d/2) of the distance
\* d: 1.0 at d = 0, 0.0 at d = 2 and at d = 4, within [0, 1] and
\* non-increasing in d; the search endpoint and the sources of an Answer
\* report the same score for the same distance.
C22_ScoreIsTheConversion ==
    (last.op = "score")
       => /\ 2 * last.source1 = similarity_score(last.d1)
          /\ 2 * last.endpoint1 = similarity_score(last.d1)
          /\ last.source1 = last.endpoint1
          /\ last.d1 = 0 => last.source1 = Scale
          /\ last.d1 \in {2 * Scale, 4 * Scale} => last.source1 = 0
          /\ last.source1 \in 0..Scale
          /\ last.d1 <= last.d2 => last.source1 >= last.source2

\* C22 (amended): both paths compute max(0, 1 - d/2) and then round it, the
\* sources of an Answer to 3 decimal places and the search endpoint to 4.
\* Each reported score is 1.0 at d = 0, 0.0 at d = 2 and at d = 4, within
\* [0, 1] and non-increasing in d; it is within 0.0005 (sources) or 0.00005
\* (endpoint) of max(0, 1 - d/2), and the two paths differ by at most 0.0005
\* for the same distance.
C22_ScoreIsTheRoundedConversion ==
    (last.op = "score")
       => /\ 2 * last.source1 - similarity_score(last.d1) \in -10..10
          /\ 2 * last.endpoint1 - similarity_score(last.d1) \in -1..1
          /\ last.source1 % 10 = 0
          /\ last.source1 - last.endpoint1 \in -5..5
          /\ last.d1 = 0 => last.source1 = Scale /\ last.endpoint1 = Scale
          /\ last.d1 \in {2 * Scale, 4 * Scale}
                => last.source1 = 0 /\ last.endpoint1 = 0
          /\ last.source1 \in 0..Scale /\ last.endpoint1 \in 0..Scale
          /\ last.d1 <= last.d2
                => /\ last.source1 >= last.source2
                   /\ last.endpoint1 >= last.endpoint2

C22_Witness ==
    /\ last.op = "score"
    /\ last.d1 = 2 /\ last.d2 = 4 * Scale
    /\ last.source1 = Scale
    /\ last.endpoint1 = Scale - 1
    /\ last.source2 = 0 /\ last.endpoint2 = 0

(***************************************************************************)
(* Further properties of the sequential manager (Spec).                    *)
(***************************************************************************)
\* C23: in every state reachable by add, bulk_add, update and delete, the
\* metadata of each stored document holds a timestamp and a text_length, and
\* text_length is the length of the document's stored text.
C23_MetadataDescribesTheText ==
    \A k \in DOMAIN collection :
        /\ DictHas(collection[k].metadata, "timestamp")
        /\ DictHas(collection[k].metadata, "text_length")
        /\ DictGet(collection[k].metadata, "text_length")
              = Len(collection[k].document)

\* C24: add_document with allow_duplicates=True on content whose id is already
\* stored overwrites: it returns the id without an error, and afterwards the
\* document stored under that id holds the embedding of this call and the
\* metadata of this call, freshly stamped.
C24_AddAllowingDuplicatesOverwrites ==
    [][LET md == IF last'.metadata = None THEN <<>> ELSE Val(last'.metadata)
           doc_id == _generate_document_id(last'.text, Some(md))
       IN (/\ last'.op = "add_document"
           /\ last'.allow_duplicates
           /\ last'.fault = {}
           /\ doc_id \in DOMAIN collection)
             => /\ last'.raised = ""
                /\ last'.ret = doc_id
                /\ doc_id \in DOMAIN collection'
                /\ collection'[doc_id].document = last'.text
                /\ collection'[doc_id].embedding = EmbeddingOf(last'.text)
                /\ collection'[doc_id].metadata =
                      DictUpdate(md, <<<<"timestamp", clock>>,
                                       <<"text_length", Len(last'.text)>>>>)]_vars

(***************************************************************************)
(* Properties of the start-up (SpecStartup).                               *)
(***************************************************************************)
\* C25: when the backend client or the collection cannot be created,
\* constructing the ChromaDBManager raises a RuntimeError whose message
\* contains "ChromaDB initialization failed".
C25_InitFailureIsRuntimeError ==
    (/\ last.op = "ChromaDBManager"
     /\ last.client # NoException \/ last.create # NoException)
       => last.raised = <<"RuntimeError", "ChromaDB initialization failed">>

ContentIsUnique(coll) ==
    \A k1, k2 \in DOMAIN coll :
        (/\ coll[k1].document = coll[k2].document
         /\ CallerItems(coll[k1].metadata) = CallerItems(coll[k2].metadata))
           => k1 = k2

\* C27: as long as every insert uses allow_duplicates=False, no two stored
\* documents hold the same (text, caller metadata) pair: a step of add,
\* bulk_add, update or delete that is not an insert allowing duplicates keeps
\* the pairs distinct.  In particular an add of the text that an update gave
\* to a document is deduplicated against that document.
C27_InsertsKeepContentUnique ==
    [][(/\ ContentIsUnique(collection)
        /\ ~(/\ last'.op \in {"add_document", "bulk_add_documents"}
             /\ last'.allow_duplicates))
          => ContentIsUnique(collection')]_vars

\* add_document(text, embedding, metadata) on each document in input order,
\* the caller going on after a call that raises: the collection afterwards.
RECURSIVE AddEach(_, _, _)
AddEach(coll, now, documents) ==
    IF documents = <<>> THEN coll
    ELSE LET doc == Head(documents)
             o == add_document(coll, now, doc.text, doc.embedding,
                               Some(doc.metadata), FALSE, {})
         IN AddEach(o.coll, now, Tail(documents))

\* C28: bulk_add_documents with allow_duplicates=False applies add's rule to
\* each document, so it leaves the collection as add_document on each
\* document in input order does.  When the batch holds two documents with
\* the same computed id and that id is not stored yet, the call does not
\* fail and one document is stored for that id.
C28_BulkAddIsAddOnEach ==
    /\ [](\A documents \in SeqsUpTo(BulkDocs, MaxBatch) :
             bulk_add_documents(collection, clock, documents, FALSE, {}).coll
                = AddEach(collection, clock, documents))
    /\ [][(/\ last'.op = "bulk_add_documents"
           /\ ~last'.allow_duplicates
           /\ last'.fault = {})
             => \A i, j \in DOMAIN last'.ids :
                   (/\ i # j /\ last'.ids[i] = last'.ids[j]
                    /\ last'.ids[i] \notin DOMAIN collection)
                      => /\ last'.raised = ""
                         /\ last'.ids[i] \in DOMAIN collection']_vars

\* C29: the mode of a RAGPipeline is determined by the api_key it was
\* constructed with.  A pipeline constructed with an empty or placeholder
\* api_key is in mock mode and never issues an HTTP call; a pipeline in live
\* mode sends a bearer credential that is not empty.
C29_ModeFollowsTheApiKey ==
    rag.constructed
       => /\ rag.use_mock_llm <=> rag.api_key \in {"", PLACEHOLDER_API_KEY}
          /\ rag.api_key \in {"", PLACEHOLDER_API_KEY}
                => "api" \notin Called /\ rag.authorization = None
          /\ (~rag.use_mock_llm /\ rag.authorization # None)
                => /\ Val(rag.authorization)[1] = "Bearer "
                   /\ Val(rag.authorization)[2] # ""

\* The source that the i-th document the search returned gives.
SourceOf(i) ==
    LET stored == collection[rag.order[i]]
    IN [content |-> stored.document,
        score |-> SourceScore(Distance(QueryEmbedding(rag.question),
                                       stored.embedding) * Scale),
        metadata |-> stored.metadata]

\* C30 (as stated): in every Answer of generate_answer,
\* context_documents_found is the number of documents the search returned
\* and the number of sources, and the sources list those documents in the
\* order the search returned them, each with its own distance and metadata.
C30_SourcesAreTheRetrievedDocuments ==
    (Returned /\ strip(rag.question) # <<>> /\ GenerationReached)
       => /\ Response.context_documents_found = Retrieved
          /\ Len(Response.sources) = Retrieved
          /\ \A i \in 1..Retrieved : Response.sources[i] = SourceOf(i)

\* C30 (amended): in every Answer that generate_answer assembles after the
\* generation, context_documents_found is the number of documents the search
\* returned and the number of sources, and the sources list those documents
\* in the order the search returned them, each with its own distance and
\* metadata.  The error Answer, returned when the question is blank or when
\* a stage raises, has context_documents_found 0 and no sources, whatever
\* the search returned.
C30_AssembledSourcesAreTheRetrievedDocuments ==
    Returned
       => IF /\ strip(rag.question) # <<>> /\ GenerationReached
             /\ rag.generated.raised = "" /\ ~FormattingFailed
          THEN /\ Response.context_documents_found = Retrieved
               /\ Len(Response.sources) = Retrieved
               /\ \A i \in 1..Retrieved : Response.sources[i] = SourceOf(i)
          ELSE /\ Response.context_documents_found = 0
               /\ Response.sources = <<>>

C30_Witness ==
    /\ Returned
    /\ collection = TwoDocuments
    /\ rag.question = <<98, 98>>
    /\ rag.max_results = 3
    /\ rag.api = "ok"
    /\ Response.context_documents_found = 2
    /\ Response.sources[1].content = "bb"
    /\ Response.sources[1].score = Scale
    /\ Response.sources[2].content = "a"
    /\ Response.sources[2].score = Scale \div 2

====
